---- MODULE Spec2Model ----
(***************************************************************************)
(* pycql/parser.py: the CQL grammar, the LR tables yacc.yacc() builds from *)
(* it, the parse loop that parser.parse() runs over a token stream, and    *)
(* the p_* actions that build the AST.                                     *)
(*                                                                         *)
(* Python values are tagged records (field py): strings, ints, None,       *)
(* lists, tuples, opaque lexer values and ast nodes.  An ast node is the   *)
(* constructor call that built it: its class, its positional arguments     *)
(* and its keyword arguments.                                              *)
(***************************************************************************)
EXTENDS Integers, Sequences, FiniteSets, TLC

----------------------------------------------------------------------------
(* Grammar: one definition per p_* docstring, productions in source order. *)

R(name, prod, func) == [name |-> name, prod |-> prod, func |-> func]

p_condition_or_empty_doc ==
  <<
    R("condition_or_empty", <<"condition">>, "p_condition_or_empty"),
    R("condition_or_empty", <<"empty">>, "p_condition_or_empty")
  >>

p_condition_doc ==
  <<
    R("condition", <<"predicate">>, "p_condition"),
    R("condition", <<"condition", "AND", "condition">>, "p_condition"),
    R("condition", <<"condition", "OR", "condition">>, "p_condition"),
    R("condition", <<"NOT", "condition">>, "p_condition"),
    R("condition", <<"LPAREN", "condition", "RPAREN">>, "p_condition"),
    R("condition", <<"LBRACKET", "condition", "RBRACKET">>, "p_condition")
  >>

p_predicate_doc ==
  <<
    R("predicate", <<"expression", "EQ", "expression">>, "p_predicate"),
    R("predicate", <<"expression", "NE", "expression">>, "p_predicate"),
    R("predicate", <<"expression", "LT", "expression">>, "p_predicate"),
    R("predicate", <<"expression", "LE", "expression">>, "p_predicate"),
    R("predicate", <<"expression", "GT", "expression">>, "p_predicate"),
    R("predicate", <<"expression", "GE", "expression">>, "p_predicate"),
    R("predicate", <<"expression", "NOT", "BETWEEN", "expression", "AND", "expression">>, "p_predicate"),
    R("predicate", <<"expression", "BETWEEN", "expression", "AND", "expression">>, "p_predicate"),
    R("predicate", <<"expression", "NOT", "LIKE", "QUOTED">>, "p_predicate"),
    R("predicate", <<"expression", "LIKE", "QUOTED">>, "p_predicate"),
    R("predicate", <<"expression", "NOT", "ILIKE", "QUOTED">>, "p_predicate"),
    R("predicate", <<"expression", "ILIKE", "QUOTED">>, "p_predicate"),
    R("predicate", <<"expression", "NOT", "IN", "LPAREN", "expression_list", "RPAREN">>, "p_predicate"),
    R("predicate", <<"expression", "IN", "LPAREN", "expression_list", "RPAREN">>, "p_predicate"),
    R("predicate", <<"expression", "IS", "NOT", "NULL">>, "p_predicate"),
    R("predicate", <<"expression", "IS", "NULL">>, "p_predicate"),
    R("predicate", <<"temporal_predicate">>, "p_predicate"),
    R("predicate", <<"spatial_predicate">>, "p_predicate")
  >>

p_temporal_predicate_doc ==
  <<
    R("temporal_predicate", <<"expression", "BEFORE", "TIME">>, "p_temporal_predicate"),
    R("temporal_predicate", <<"expression", "BEFORE", "OR", "DURING", "time_period">>, "p_temporal_predicate"),
    R("temporal_predicate", <<"expression", "DURING", "time_period">>, "p_temporal_predicate"),
    R("temporal_predicate", <<"expression", "DURING", "OR", "AFTER", "time_period">>, "p_temporal_predicate"),
    R("temporal_predicate", <<"expression", "AFTER", "TIME">>, "p_temporal_predicate")
  >>

p_time_period_doc ==
  <<
    R("time_period", <<"TIME", "DIVIDE", "TIME">>, "p_time_period"),
    R("time_period", <<"TIME", "DIVIDE", "DURATION">>, "p_time_period"),
    R("time_period", <<"DURATION", "DIVIDE", "TIME">>, "p_time_period")
  >>

p_spatial_predicate_doc ==
  <<
    R("spatial_predicate", <<"INTERSECTS", "LPAREN", "expression", "COMMA", "expression", "RPAREN">>, "p_spatial_predicate"),
    R("spatial_predicate", <<"DISJOINT", "LPAREN", "expression", "COMMA", "expression", "RPAREN">>, "p_spatial_predicate"),
    R("spatial_predicate", <<"CONTAINS", "LPAREN", "expression", "COMMA", "expression", "RPAREN">>, "p_spatial_predicate"),
    R("spatial_predicate", <<"WITHIN", "LPAREN", "expression", "COMMA", "expression", "RPAREN">>, "p_spatial_predicate"),
    R("spatial_predicate", <<"TOUCHES", "LPAREN", "expression", "COMMA", "expression", "RPAREN">>, "p_spatial_predicate"),
    R("spatial_predicate", <<"CROSSES", "LPAREN", "expression", "COMMA", "expression", "RPAREN">>, "p_spatial_predicate"),
    R("spatial_predicate", <<"OVERLAPS", "LPAREN", "expression", "COMMA", "expression", "RPAREN">>, "p_spatial_predicate"),
    R("spatial_predicate", <<"EQUALS", "LPAREN", "expression", "COMMA", "expression", "RPAREN">>, "p_spatial_predicate"),
    R("spatial_predicate", <<"RELATE", "LPAREN", "expression", "COMMA", "expression", "COMMA", "QUOTED", "RPAREN">>, "p_spatial_predicate"),
    R("spatial_predicate", <<"DWITHIN", "LPAREN", "expression", "COMMA", "expression", "COMMA", "number", "COMMA", "UNITS", "RPAREN">>, "p_spatial_predicate"),
    R("spatial_predicate", <<"BEYOND", "LPAREN", "expression", "COMMA", "expression", "COMMA", "number", "COMMA", "UNITS", "RPAREN">>, "p_spatial_predicate"),
    R("spatial_predicate", <<"BBOX", "LPAREN", "expression", "COMMA", "number", "COMMA", "number", "COMMA", "number", "COMMA", "number", "RPAREN">>, "p_spatial_predicate"),
    R("spatial_predicate", <<"BBOX", "LPAREN", "expression", "COMMA", "number", "COMMA", "number", "COMMA", "number", "COMMA", "number", "COMMA", "QUOTED", "RPAREN">>, "p_spatial_predicate")
  >>

p_expression_list_doc ==
  <<
    R("expression_list", <<"expression_list", "COMMA", "expression">>, "p_expression_list"),
    R("expression_list", <<"expression">>, "p_expression_list")
  >>

p_expression_doc ==
  <<
    R("expression", <<"expression", "PLUS", "expression">>, "p_expression"),
    R("expression", <<"expression", "MINUS", "expression">>, "p_expression"),
    R("expression", <<"expression", "TIMES", "expression">>, "p_expression"),
    R("expression", <<"expression", "DIVIDE", "expression">>, "p_expression"),
    R("expression", <<"LPAREN", "expression", "RPAREN">>, "p_expression"),
    R("expression", <<"LBRACKET", "expression", "RBRACKET">>, "p_expression"),
    R("expression", <<"GEOMETRY">>, "p_expression"),
    R("expression", <<"ENVELOPE">>, "p_expression"),
    R("expression", <<"attribute">>, "p_expression"),
    R("expression", <<"QUOTED">>, "p_expression"),
    R("expression", <<"INTEGER">>, "p_expression"),
    R("expression", <<"FLOAT">>, "p_expression")
  >>

p_number_doc ==
  <<
    R("number", <<"INTEGER">>, "p_number"),
    R("number", <<"FLOAT">>, "p_number")
  >>

p_attribute_doc ==
  <<
    R("attribute", <<"ATTRIBUTE">>, "p_attribute")
  >>

p_empty_doc ==
  <<
    R("empty", <<>>, "p_empty")
  >>

start == "condition_or_empty"

(* Variants of the precedence table, each a slip the table could hold:    *)
(* OR, AND and NOT given levels of their own below the comparisons;        *)
(* AND and OR declared left-associative at one level; PLUS and MINUS       *)
(* declared right-associative.                                             *)
precedence_with_not ==
  << <<"left", {"OR"}>>,
     <<"left", {"AND"}>>,
     <<"right", {"NOT"}>>,
     <<"left", {"EQ", "NE"}>>,
     <<"left", {"GT", "GE", "LT", "LE"}>>,
     <<"left", {"PLUS", "MINUS"}>>,
     <<"left", {"TIMES", "DIVIDE"}>> >>

precedence_left_connectives ==
  << <<"left", {"AND", "OR"}>>,
     <<"left", {"EQ", "NE"}>>,
     <<"left", {"GT", "GE", "LT", "LE"}>>,
     <<"left", {"PLUS", "MINUS"}>>,
     <<"left", {"TIMES", "DIVIDE"}>> >>

precedence_right_sums ==
  << <<"left", {"EQ", "NE"}>>,
     <<"left", {"GT", "GE", "LT", "LE"}>>,
     <<"right", {"PLUS", "MINUS"}>>,
     <<"left", {"TIMES", "DIVIDE"}>> >>

(* CQLParser.precedence: lowest level first; the level of a token is its row. *)
precedence ==
  << <<"left", {"EQ", "NE"}>>,
     <<"left", {"GT", "GE", "LT", "LE"}>>,
     <<"left", {"PLUS", "MINUS"}>>,
     <<"left", {"TIMES", "DIVIDE"}>> >>

----------------------------------------------------------------------------
(* yacc.yacc(module=self): the grammar object.  Production 0 is S' -> start *)
(* and the others are numbered in the order of the p_* functions.           *)

Productions ==
  <<R("S'", <<start>>, "S'")>> \o p_condition_or_empty_doc \o p_condition_doc
    \o p_predicate_doc \o p_temporal_predicate_doc \o p_time_period_doc
    \o p_spatial_predicate_doc \o p_expression_list_doc \o p_expression_doc
    \o p_number_doc \o p_attribute_doc \o p_empty_doc

Range(s) == {s[i] : i \in DOMAIN s}

Max(S) == CHOOSE x \in S : \A y \in S : y <= x

Min(S) == CHOOSE x \in S : \A y \in S : x <= y

(* Grammar(terminals), set_precedence and add_production: g.Productions[n + 1] *)
(* is production n.                                                        *)
Grammar(prods, prec) ==
  [Productions  |-> prods,
   Precedence   |-> prec,
   Nonterminals |-> {prods[i].name : i \in DOMAIN prods},
   Terminals    |-> (UNION {Range(prods[i].prod) : i \in DOMAIN prods}
                       \ {prods[i].name : i \in DOMAIN prods}) \cup {"$end"}]

PNums(g) == 0 .. (Len(g.Productions) - 1)

(* Precedence.get(a, ('right', 0)) *)
TermPrec(g, a) ==
  LET rows == {i \in DOMAIN g.Precedence : a \in g.Precedence[i][2]}
  IN  IF rows = {} THEN <<"right", 0>> ELSE <<g.Precedence[Min(rows)][1], Min(rows)>>

(* A production takes the precedence of its rightmost terminal. *)
ProdPrec(g, n) ==
  LET rhs == g.Productions[n + 1].prod
      ts  == {k \in DOMAIN rhs : rhs[k] \in g.Terminals}
  IN  IF ts = {} THEN <<"right", 0>> ELSE TermPrec(g, rhs[Max(ts)])

RECURSIVE NullableFrom(_, _)
NullableFrom(g, N) ==
  LET N2 == N \cup {g.Productions[n + 1].name :
                      n \in {m \in PNums(g) : Range(g.Productions[m + 1].prod) \subseteq N}}
  IN  IF N2 = N THEN N ELSE NullableFrom(g, N2)

compute_nullable(g) == g @@ [Nullable |-> NullableFrom(g, {})]

(* First of the symbol string beta[k..], given First F of the nonterminals. *)
FirstOfSeq(g, F, beta, k) ==
  UNION {IF beta[j] \in g.Terminals THEN {beta[j]} ELSE F[beta[j]] :
           j \in {h \in k .. Len(beta) : \A i \in k .. (h - 1) : beta[i] \in g.Nullable}}

RECURSIVE FirstFrom(_, _)
FirstFrom(g, F) ==
  LET F2 == [A \in g.Nonterminals |->
               UNION {FirstOfSeq(g, F, g.Productions[n + 1].prod, 1) :
                        n \in {m \in PNums(g) : g.Productions[m + 1].name = A}}]
  IN  IF F2 = F THEN F ELSE FirstFrom(g, F2)

compute_first(g) == g @@ [First |-> FirstFrom(g, [A \in g.Nonterminals |-> {}])]

(* Every occurrence <<n, k>> of nonterminal A: symbol k of production n. *)
Occurrences(g, A) ==
  UNION {{<<n, k>> : k \in {h \in DOMAIN g.Productions[n + 1].prod :
                              g.Productions[n + 1].prod[h] = A}} : n \in PNums(g)}

(* What follows the occurrence o, given Follow F so far. *)
After(g, F, o) ==
  LET rhs == g.Productions[o[1] + 1].prod
  IN  FirstOfSeq(g, g.First, rhs, o[2] + 1)
        \cup (IF \A h \in (o[2] + 1) .. Len(rhs) : rhs[h] \in g.Nullable
                THEN F[g.Productions[o[1] + 1].name] ELSE {})

RECURSIVE FollowFrom(_, _)
FollowFrom(g, F) ==
  LET F2 == [A \in g.Nonterminals |-> F[A] \cup UNION {After(g, F, o) : o \in Occurrences(g, A)}]
  IN  IF F2 = F THEN F ELSE FollowFrom(g, F2)

compute_follow(g) ==
  g @@ [Follow |-> FollowFrom(g, [A \in g.Nonterminals |-> IF A = "S'" THEN {"$end"} ELSE {}])]

(* LR(0) items <<n, d>>: production n with d symbols before the dot; the   *)
(* symbol after the dot, "." at the end.                                   *)
AfterDot(g, it) ==
  IF it[2] < Len(g.Productions[it[1] + 1].prod)
    THEN g.Productions[it[1] + 1].prod[it[2] + 1]
  ELSE "."

(* The nonterminals a derivation from one of S can begin with. *)
RECURSIVE LeftmostFrom(_, _)
LeftmostFrom(g, S) ==
  LET S2 == S \cup ({AfterDot(g, <<n, 0>>) :
                       n \in {m \in PNums(g) : g.Productions[m + 1].name \in S}}
                      \cap g.Nonterminals)
  IN  IF S2 = S THEN S ELSE LeftmostFrom(g, S2)

compute_leftmost(g) == g @@ [Leftmost |-> [A \in g.Nonterminals |-> LeftmostFrom(g, {A})]]

lr0_closure(g, K) ==
  LET nts == UNION {g.Leftmost[A] : A \in {AfterDot(g, it) : it \in K} \cap g.Nonterminals}
  IN  K \cup {<<n, 0>> : n \in {m \in PNums(g) : g.Productions[m + 1].name \in nts}}

lr0_goto(g, K, x) ==
  {<<it[1], it[2] + 1>> : it \in {i \in lr0_closure(g, K) : AfterDot(g, i) = x}}

RECURSIVE SetToSeq(_)
SetToSeq(S) ==
  IF S = {} THEN <<>>
  ELSE LET x == CHOOSE y \in S : TRUE IN <<x>> \o SetToSeq(S \ {x})

(* The kernels reachable from S' -> . start, breadth first: C is the       *)
(* collection so far and front the kernels found in the last round.        *)
RECURSIVE lr0_collect(_, _, _)
lr0_collect(g, C, front) ==
  IF front = {} THEN C
  ELSE LET next == UNION {{lr0_goto(g, K, x) :
                             x \in {AfterDot(g, it) : it \in lr0_closure(g, K)} \ {"."}}
                          : K \in front} \ Range(C)
       IN  lr0_collect(g, C \o SetToSeq(next), next)

(* The canonical collection, each kernel with its closure; state 1 is the  *)
(* start state (PLY's state 0).                                            *)
lr0_items(g) ==
  LET C == lr0_collect(g, <<{<<0, 0>>}>>, {{<<0, 0>>}})
  IN  g @@ [kernels |-> C, closures |-> [s \in DOMAIN C |-> lr0_closure(g, C[s])]]

(* The productions each state has read to the end. *)
compute_completed(g) ==
  g @@ [completed |->
          [s \in DOMAIN g.kernels |->
             {it[1] : it \in {i \in g.closures[s] : AfterDot(g, i) = "."}}]]

compute_goto(g) ==
  g @@ [goto |->
          [s \in DOMAIN g.kernels |->
             [x \in {AfterDot(g, it) : it \in g.closures[s]} \ {"."} |->
                LET K == lr0_goto(g, g.kernels[s], x)
                IN  CHOOSE j \in DOMAIN g.kernels : g.kernels[j] = K]]]

(* The reductions of state s that terminal a may follow. *)
Reductions(g, s, a) ==
  {n \in g.completed[s] \ {0} : a \in g.Follow[g.Productions[n + 1].name]}

(* A shift/reduce conflict between terminal a and production r: the        *)
(* reduction wins when its level is higher, or equal and left-associative; *)
(* nonassoc at equal levels is an error; otherwise the shift wins.         *)
Resolve(g, s, a, r) ==
  LET slevel == TermPrec(g, a)[2]
      rprec  == ProdPrec(g, r)
  IN  IF slevel < rprec[2] \/ (slevel = rprec[2] /\ rprec[1] = "left") THEN {-r}
      ELSE IF slevel = rprec[2] /\ rprec[1] = "nonassoc" THEN {}
      ELSE {g.goto[s][a]}

(* The action of state s on terminal a, as a set: empty when there is none. *)
(* t > 0 shifts to state t, t < 0 reduces by production -t, 0 accepts.  Of  *)
(* two reductions the one of the earlier production is kept.               *)
ResolveAction(g, s, a) ==
  LET reds == Reductions(g, s, a)
  IN  IF 0 \in g.completed[s] /\ a = "$end" THEN {0}
      ELSE IF reds = {} THEN (IF a \in DOMAIN g.goto[s] THEN {g.goto[s][a]} ELSE {})
      ELSE IF a \notin DOMAIN g.goto[s] THEN {-Min(reds)}
      ELSE Resolve(g, s, a, Min(reds))

lr_parse_table(g) ==
  g @@ [action |->
          [s \in DOMAIN g.kernels |->
             LET acts == [a \in g.Terminals |-> ResolveAction(g, s, a)]
             IN  [a \in {b \in g.Terminals : acts[b] # {}} |-> CHOOSE t \in acts[a] : TRUE]]]

(* LRParser.set_defaulted_states: the states with a single action that is  *)
(* a reduction.                                                            *)
set_defaulted_states(g) ==
  g @@ [defaulted_states |->
          {s \in DOMAIN g.action : \E a \in DOMAIN g.action[s] :
                                      DOMAIN g.action[s] = {a} /\ g.action[s][a] < 0}]

(* yacc.yacc: the LALR tables of the grammar, which for this grammar are   *)
(* the tables the Follow sets give.                                        *)
yacc(prods, prec) ==
  set_defaulted_states(lr_parse_table(compute_goto(compute_completed(lr0_items(
    compute_leftmost(compute_follow(compute_first(compute_nullable(
      Grammar(prods, prec))))))))))

(* self.parser *)
parser == yacc(Productions, precedence)

Prod(n) == parser.Productions[n + 1]

----------------------------------------------------------------------------
(* Python values. *)

None == [py |-> "None"]

PyStr(text) == [py |-> "str", s |-> text]

PyInt(k) == [py |-> "int", n |-> k]

PyBool(c) == [py |-> "bool", b |-> c]

PyFloat(k) == [py |-> "float", f |-> k]

(* values.Geometry, values.BBox, values.Time, values.Duration: opaque. *)
Opaque(class, k) == [py |-> class, id |-> k]

PyList(elems) == [py |-> "list", items |-> elems]

PyTuple(elems) == [py |-> "tuple", items |-> elems]

(* A call of a class of the ast module with its positional and keyword     *)
(* arguments; NoKw is the empty keyword dictionary.                        *)
NoKw == <<>>

Node(class, arguments, keywords) ==
  [py |-> "node", cls |-> class, args |-> arguments, kwargs |-> keywords]

isinstance_Node(v) == v.py = "node"

(* v == text and v in texts, for a value v of any type. *)
Eq(v, text) == v.py = "str" /\ v.s = text

In(v, texts) == v.py = "str" /\ v.s \in texts

----------------------------------------------------------------------------
(* The grammar actions.  p is the sequence p[1], ..., p[len(p) - 1] of the *)
(* values of the right-hand side; each operator returns p[0], which stays  *)
(* None when the function assigns nothing.                                 *)

len(p) == Len(p) + 1

(* p[i:j] with 0 < i and j < 0, and p[i::2] *)
Slice(p, i, j) == SubSeq(p, i, len(p) + j - 1)

(* p[i + 1::2]: the slice taken one place late. *)
EveryOtherLate(p, i) ==
  [k \in 1 .. ((len(p) - i) \div 2) |-> p[i + 1 + 2 * (k - 1)]]

EveryOther(p, i) ==
  [k \in 1 .. ((len(p) - i + 1) \div 2) |-> p[i + 2 * (k - 1)]]

RECURSIVE join(_, _)
join(sep, strs) ==
  IF strs = <<>> THEN ""
  ELSE IF Len(strs) = 1 THEN strs[1].s
  ELSE strs[1].s \o sep \o join(sep, Tail(strs))

p_condition_or_empty(p) == p[1]

p_condition(p) ==
  IF len(p) = 2 THEN p[1]
  ELSE IF In(p[2], {"AND", "OR"})
    THEN Node("CombinationConditionNode", <<p[1], p[3], p[2]>>, NoKw)
  ELSE IF Eq(p[1], "NOT") THEN Node("NotConditionNode", <<p[2]>>, NoKw)
  ELSE IF In(p[1], {"(", "["}) THEN p[2]
  ELSE None

(* p_predicate reading the operands of a negated predicate at the places *)
(* they have without NOT.                                                  *)
p_predicate_unshifted(p) ==
  IF len(p) = 2 THEN p[1]
  ELSE IF In(p[2], {"=", "<>", "<", "<=", ">", ">="})
    THEN Node("ComparisonPredicateNode", <<p[1], p[3], p[2]>>, NoKw)
  ELSE
    LET not_ == Eq(p[2], "NOT")
        op   == IF not_ THEN p[3] ELSE p[2]
    IN  IF Eq(op, "BETWEEN")
          THEN Node("BetweenPredicateNode", <<p[1], p[3], p[5], PyBool(not_)>>, NoKw)
        ELSE IF In(op, {"LIKE", "ILIKE"})
          THEN Node("LikePredicateNode",
                    <<p[1], Node("LiteralExpression", <<p[3]>>, NoKw),
                      PyBool(Eq(op, "LIKE")), PyBool(not_)>>, NoKw)
        ELSE IF Eq(op, "IN")
          THEN Node("InPredicateNode", <<p[1], p[4], PyBool(not_)>>, NoKw)
        ELSE IF Eq(op, "IS")
          THEN Node("NullPredicateNode", <<p[1], PyBool(Eq(p[3], "NOT"))>>, NoKw)
        ELSE None

p_predicate(p) ==
  IF len(p) = 2 THEN p[1]
  ELSE IF In(p[2], {"=", "<>", "<", "<=", ">", ">="})
    THEN Node("ComparisonPredicateNode", <<p[1], p[3], p[2]>>, NoKw)
  ELSE
    LET not_ == Eq(p[2], "NOT")
        op   == IF not_ THEN p[3] ELSE p[2]
    IN  IF Eq(op, "BETWEEN")
          THEN Node("BetweenPredicateNode",
                    <<p[1], p[IF not_ THEN 4 ELSE 3], p[IF not_ THEN 6 ELSE 5], PyBool(not_)>>, NoKw)
        ELSE IF In(op, {"LIKE", "ILIKE"})
          THEN Node("LikePredicateNode",
                    <<p[1], Node("LiteralExpression", <<p[IF not_ THEN 4 ELSE 3]>>, NoKw),
                      PyBool(Eq(op, "LIKE")), PyBool(not_)>>, NoKw)
        ELSE IF Eq(op, "IN")
          THEN Node("InPredicateNode", <<p[1], p[IF not_ THEN 5 ELSE 4], PyBool(not_)>>, NoKw)
        ELSE IF Eq(op, "IS")
          THEN Node("NullPredicateNode", <<p[1], PyBool(Eq(p[3], "NOT"))>>, NoKw)
        ELSE None

(* p_temporal_predicate taking the first keyword alone as the operator. *)
p_temporal_predicate_first_word(p) ==
  Node("TemporalPredicateNode", <<p[1], p[IF len(p) = 4 THEN 3 ELSE 5], p[2]>>, NoKw)

p_temporal_predicate(p) ==
  LET op == IF len(p) > 4 THEN PyStr(join(" ", Slice(p, 2, -1))) ELSE p[2]
  IN  Node("TemporalPredicateNode", <<p[1], p[IF len(p) = 4 THEN 3 ELSE 5], op>>, NoKw)

p_time_period(p) == PyTuple(<<p[1], p[3]>>)

(* p_spatial_predicate without the branch for RELATE. *)
p_spatial_predicate_no_relate(p) ==
  LET op  == p[1]
      lhs == p[3]
      rhs == p[5]
  IN  IF In(op, {"DWITHIN", "BEYOND"})
        THEN Node("SpatialPredicateNode", <<lhs, rhs, op>>,
                  [distance |-> p[7], units |-> p[9]])
      ELSE IF Eq(op, "BBOX")
        THEN Node("BBoxPredicateNode", <<lhs>> \o EveryOther(p, 5), NoKw)
      ELSE Node("SpatialPredicateNode", <<lhs, rhs, op>>, NoKw)

p_spatial_predicate(p) ==
  LET op  == p[1]
      lhs == p[3]
      rhs == p[5]
  IN  IF Eq(op, "RELATE")
        THEN Node("SpatialPredicateNode", <<lhs, rhs, op>>, [pattern |-> p[7]])
      ELSE IF In(op, {"DWITHIN", "BEYOND"})
        THEN Node("SpatialPredicateNode", <<lhs, rhs, op>>,
                  [distance |-> p[7], units |-> p[9]])
      ELSE IF Eq(op, "BBOX")
        THEN Node("BBoxPredicateNode", <<lhs>> \o EveryOther(p, 5), NoKw)
      ELSE Node("SpatialPredicateNode", <<lhs, rhs, op>>, NoKw)

p_expression_list(p) ==
  IF len(p) = 2 THEN PyList(<<p[1]>>) ELSE PyList(Append(p[1].items, p[3]))

(* p_expression knowing the round bracket only. *)
p_expression_round_only(p) ==
  IF len(p) = 2
    THEN IF isinstance_Node(p[1]) THEN p[1] ELSE Node("LiteralExpression", <<p[1]>>, NoKw)
  ELSE IF In(p[1], {"("}) THEN p[2]
  ELSE Node("ArithmeticExpressionNode", <<p[1], p[3], p[2]>>, NoKw)

p_expression(p) ==
  IF len(p) = 2
    THEN IF isinstance_Node(p[1]) THEN p[1] ELSE Node("LiteralExpression", <<p[1]>>, NoKw)
  ELSE IF In(p[1], {"(", "["}) THEN p[2]
  ELSE Node("ArithmeticExpressionNode", <<p[1], p[3], p[2]>>, NoKw)

p_number(p) == Node("LiteralExpression", <<p[1]>>, NoKw)

p_attribute(p) == Node("AttributeExpression", <<p[1]>>, NoKw)

p_empty(p) == None

(* p.callable(pslice) *)
callable(func, p) ==
  CASE func = "p_condition_or_empty" -> p_condition_or_empty(p)
    [] func = "p_condition"          -> p_condition(p)
    [] func = "p_predicate"          -> p_predicate(p)
    [] func = "p_temporal_predicate" -> p_temporal_predicate(p)
    [] func = "p_time_period"        -> p_time_period(p)
    [] func = "p_spatial_predicate"  -> p_spatial_predicate(p)
    [] func = "p_expression_list"    -> p_expression_list(p)
    [] func = "p_expression"         -> p_expression(p)
    [] func = "p_number"             -> p_number(p)
    [] func = "p_attribute"          -> p_attribute(p)
    [] func = "p_empty"              -> p_empty(p)

----------------------------------------------------------------------------
(* The lexer's tokens: a keyword or an operator carries its own text.      *)

Tok(type, value) == [type |-> type, value |-> value]

kw(word) == Tok(word, PyStr(word))

EQ == Tok("EQ", PyStr("="))
NE == Tok("NE", PyStr("<>"))
LT == Tok("LT", PyStr("<"))
LE == Tok("LE", PyStr("<="))
GT == Tok("GT", PyStr(">"))
GE == Tok("GE", PyStr(">="))
PLUS == Tok("PLUS", PyStr("+"))
MINUS == Tok("MINUS", PyStr("-"))
TIMES == Tok("TIMES", PyStr("*"))
DIVIDE == Tok("DIVIDE", PyStr("/"))
LPAREN == Tok("LPAREN", PyStr("("))
RPAREN == Tok("RPAREN", PyStr(")"))
LBRACKET == Tok("LBRACKET", PyStr("["))
RBRACKET == Tok("RBRACKET", PyStr("]"))
COMMA == Tok("COMMA", PyStr(","))
ATTRIBUTE(name) == Tok("ATTRIBUTE", PyStr(name))
QUOTED(text) == Tok("QUOTED", PyStr(text))
INTEGER(k) == Tok("INTEGER", PyInt(k))
FLOAT(k) == Tok("FLOAT", PyFloat(k))
GEOMETRY(k) == Tok("GEOMETRY", Opaque("Geometry", k))
ENVELOPE(k) == Tok("ENVELOPE", Opaque("BBox", k))
TIME(k) == Tok("TIME", Opaque("Time", k))
DURATION(k) == Tok("DURATION", Opaque("Duration", k))
UNITS(text) == Tok("UNITS", PyStr(text))


----------------------------------------------------------------------------
(* The trees the queries below are expected to give, written out by hand.  *)
(* The arguments are in the order of the constructor calls of parser.py:   *)
(* lhs, rhs, op for a combination, a comparison and an arithmetic          *)
(* expression; lhs, low, high, not_ for BETWEEN; lhs, pattern, case, not_  *)
(* for LIKE; lhs, candidates, not_ for IN; lhs, not_ for IS NULL.          *)

XAttr(name) == Node("AttributeExpression", <<PyStr(name)>>, NoKw)

XLit(v) == Node("LiteralExpression", <<v>>, NoKw)

XCmp(l, op, r) == Node("ComparisonPredicateNode", <<l, r, PyStr(op)>>, NoKw)

XComb(l, op, r) == Node("CombinationConditionNode", <<l, r, PyStr(op)>>, NoKw)

XNot(c) == Node("NotConditionNode", <<c>>, NoKw)

XArith(l, op, r) == Node("ArithmeticExpressionNode", <<l, r, PyStr(op)>>, NoKw)

XBetween(v, lo, hi, neg) == Node("BetweenPredicateNode", <<v, lo, hi, PyBool(neg)>>, NoKw)

XLike(v, q, case, neg) ==
  Node("LikePredicateNode", <<v, XLit(PyStr(q)), PyBool(case), PyBool(neg)>>, NoKw)

XIn(v, candidates, neg) ==
  Node("InPredicateNode", <<v, PyList(candidates), PyBool(neg)>>, NoKw)

XNull(v, neg) == Node("NullPredicateNode", <<v, PyBool(neg)>>, NoKw)

XTemporal(l, r, op) == Node("TemporalPredicateNode", <<l, r, PyStr(op)>>, NoKw)

(* A query with the tree it is expected to give. *)
Case(toks, tree) == [toks |-> toks, tree |-> tree]

Toks(cases) == {c.toks : c \in cases}

(* Bounds of the queries. *)
MaxOps == 3

MaxList == 3

MaxDepth == 3

Connectives == {"AND", "OR"}

Preds ==
  { Case(<<ATTRIBUTE("a"), EQ, INTEGER(1)>>, XCmp(XAttr("a"), "=", XLit(PyInt(1)))),
    Case(<<ATTRIBUTE("b"), kw("IS"), kw("NULL")>>, XNull(XAttr("b"), FALSE)) }

(* P1 o1 P2 o2 ... with the tree nested to the right. *)
RECURSIVE ChainToks(_, _)
ChainToks(ps, os) ==
  IF os = <<>> THEN ps[1].toks
  ELSE ps[1].toks \o <<kw(os[1])>> \o ChainToks(Tail(ps), Tail(os))

RECURSIVE RightNested(_, _)
RightNested(ps, os) ==
  IF os = <<>> THEN ps[1].tree
  ELSE XComb(ps[1].tree, os[1], RightNested(Tail(ps), Tail(os)))

Chains(k) ==
  {Case(ChainToks(c[1], c[2]), RightNested(c[1], c[2])) :
     c \in [1 .. (k + 1) -> Preds] \X [1 .. k -> Connectives]}

ChainCases == UNION {Chains(k) : k \in 1 .. MaxOps}

(* NOT in front of a chain. *)
NotChainCases == {Case(<<kw("NOT")>> \o c.toks, XNot(c.tree)) : c \in Preds \cup ChainCases}

(* Arithmetic and comparison operators by their text. *)
ArithOps == {"+", "-", "*", "/"}

CmpOps == {"=", "<>", "<", "<=", ">", ">="}

OpTok(op) ==
  CASE op = "+" -> PLUS [] op = "-" -> MINUS [] op = "*" -> TIMES [] op = "/" -> DIVIDE
    [] op = "=" -> EQ [] op = "<>" -> NE [] op = "<" -> LT [] op = "<=" -> LE
    [] op = ">" -> GT [] op = ">=" -> GE

(* * and / bind tighter than + and -. *)
Tighter(op1, op2) == op1 \in {"*", "/"} /\ op2 \in {"+", "-"}

Xa == Case(<<ATTRIBUTE("a")>>, XAttr("a"))
Xb == Case(<<ATTRIBUTE("b")>>, XAttr("b"))
X1 == Case(<<INTEGER(1)>>, XLit(PyInt(1)))
X2 == Case(<<FLOAT(2)>>, XLit(PyFloat(2)))

(* a op1 1 cmp b op2 2 *)
BothSidesCases ==
  {Case(Xa.toks \o <<OpTok(o[1])>> \o X1.toks \o <<OpTok(o[2])>> \o Xb.toks
          \o <<OpTok(o[3])>> \o X2.toks,
        XCmp(XArith(Xa.tree, o[1], X1.tree), o[2], XArith(Xb.tree, o[3], X2.tree))) :
     o \in ArithOps \X CmpOps \X ArithOps}

(* a op1 1 op2 b cmp 2: the tighter operator first, equal levels from the left *)
ThreeOperandCases ==
  {Case(Xa.toks \o <<OpTok(o[1])>> \o X1.toks \o <<OpTok(o[2])>> \o Xb.toks
          \o <<OpTok(o[3])>> \o X2.toks,
        XCmp(IF Tighter(o[2], o[1])
               THEN XArith(Xa.tree, o[1], XArith(X1.tree, o[2], Xb.tree))
             ELSE XArith(XArith(Xa.tree, o[1], X1.tree), o[2], Xb.tree),
             o[3], X2.tree)) :
     o \in ArithOps \X ArithOps \X CmpOps}

(* Value expressions of the predicates below. *)
Exprs ==
  { Xa, Case(<<INTEGER(1), PLUS, ATTRIBUTE("c")>>, XArith(XLit(PyInt(1)), "+", XAttr("c"))) }

NotKw(neg) == IF neg THEN <<kw("NOT")>> ELSE <<>>

BetweenCases ==
  {Case(c[1].toks \o NotKw(c[4]) \o <<kw("BETWEEN")>> \o c[2].toks \o <<kw("AND")>> \o c[3].toks,
        XBetween(c[1].tree, c[2].tree, c[3].tree, c[4])) :
     c \in Exprs \X Exprs \X {X1, Xb} \X BOOLEAN}

(* A pattern may spell a keyword. *)
Patterns == {"x%", "NOT"}

LikeCases ==
  {Case(c[1].toks \o NotKw(c[4]) \o <<kw(c[2])>> \o <<QUOTED(c[3])>>,
        XLike(c[1].tree, c[3], c[2] = "LIKE", c[4])) :
     c \in Exprs \X {"LIKE", "ILIKE"} \X Patterns \X BOOLEAN}

RECURSIVE Commas(_)
Commas(es) ==
  IF Len(es) = 1 THEN es[1].toks ELSE es[1].toks \o <<COMMA>> \o Commas(Tail(es))

Lists == UNION {[1 .. k -> Exprs] : k \in 1 .. MaxList}

InCases ==
  {Case(c[1].toks \o NotKw(c[3]) \o <<kw("IN"), LPAREN>> \o Commas(c[2]) \o <<RPAREN>>,
        XIn(c[1].tree, [k \in DOMAIN c[2] |-> c[2][k].tree], c[3])) :
     c \in Exprs \X Lists \X BOOLEAN}

NullCases ==
  {Case(c[1].toks \o <<kw("IS")>> \o NotKw(c[2]) \o <<kw("NULL")>>, XNull(c[1].tree, c[2])) :
     c \in Exprs \X BOOLEAN}

NegatablePredicateCases == BetweenCases \cup LikeCases \cup InCases \cup NullCases

(* A negatable predicate followed by AND and another predicate. *)
FollowedCases ==
  {Case(c[1].toks \o <<kw("AND")>> \o c[2].toks, XComb(c[1].tree, "AND", c[2].tree)) :
     c \in {d \in NegatablePredicateCases : d.toks[1] = ATTRIBUTE("a")} \X Preds}

(* Brackets: "(" closes with ")" and "[" with "]". *)
Open(br) == IF br = "(" THEN LPAREN ELSE LBRACKET

Close(br) == IF br = "(" THEN RPAREN ELSE RBRACKET

Brackets == {"(", "["}

(* toks inside the brackets brs, brs[1] outermost *)
RECURSIVE Wrap(_, _)
Wrap(brs, toks) ==
  IF brs = <<>> THEN toks
  ELSE <<Open(brs[1])>> \o Wrap(Tail(brs), toks) \o <<Close(brs[1])>>

Nestings == UNION {[1 .. k -> Brackets] : k \in 1 .. MaxDepth}

NestingsOrNone == Nestings \cup {<<>>}

Conditions == Preds \cup Chains(1) \cup {Case(<<kw("NOT")>> \o c.toks, XNot(c.tree)) : c \in Preds}

(* A whole condition in brackets: the tree of the condition itself. *)
WrappedConditionCases ==
  {Case(Wrap(c[1], c[2].toks), c[2].tree) : c \in NestingsOrNone \X Conditions}

Pa == Case(<<ATTRIBUTE("a"), EQ, INTEGER(1)>>, XCmp(XAttr("a"), "=", XLit(PyInt(1))))
Pb == Case(<<ATTRIBUTE("b"), kw("IS"), kw("NULL")>>, XNull(XAttr("b"), FALSE))
Pc == Case(<<ATTRIBUTE("c"), LT, ATTRIBUTE("d")>>, XCmp(XAttr("c"), "<", XAttr("d")))

(* Brackets inside a condition: the bracketed part is one operand. *)
InnerConditionCases ==
  {Case(Wrap(c[1], Pa.toks \o <<kw(c[2])>> \o Pb.toks) \o <<kw(c[3])>> \o Pc.toks,
        XComb(XComb(Pa.tree, c[2], Pb.tree), c[3], Pc.tree)) :
     c \in Nestings \X Connectives \X Connectives}
  \cup
  {Case(Pa.toks \o <<kw(c[2])>> \o Wrap(c[1], Pb.toks \o <<kw(c[3])>> \o Pc.toks),
        XComb(Pa.tree, c[2], XComb(Pb.tree, c[3], Pc.tree))) :
     c \in Nestings \X Connectives \X Connectives}
  \cup
  {Case(Wrap(c[1], <<kw("NOT")>> \o Pa.toks) \o <<kw(c[2])>> \o Pb.toks,
        XComb(XNot(Pa.tree), c[2], Pb.tree)) :
     c \in Nestings \X Connectives}
  \cup
  {Case(<<kw("NOT")>> \o Wrap(c[1], Pa.toks) \o <<kw(c[2])>> \o Pb.toks,
        XNot(XComb(Pa.tree, c[2], Pb.tree))) :
     c \in Nestings \X Connectives}

(* An expression in brackets as an operand of a predicate. *)
WrappedExpressionCases ==
  {Case(Wrap(c[1], c[2].toks) \o <<OpTok(c[3])>> \o X1.toks,
        XCmp(c[2].tree, c[3], X1.tree)) : c \in NestingsOrNone \X Exprs \X CmpOps}
  \cup
  {Case(Xb.toks \o <<OpTok(c[3])>> \o Wrap(c[1], c[2].toks),
        XCmp(Xb.tree, c[3], c[2].tree)) : c \in NestingsOrNone \X Exprs \X CmpOps}
  \cup
  {Case(Xb.toks \o <<kw("BETWEEN")>> \o Wrap(c[1], c[2].toks) \o <<kw("AND")>>
          \o Wrap(c[1], c[3].toks),
        XBetween(Xb.tree, c[2].tree, c[3].tree, FALSE)) : c \in NestingsOrNone \X Exprs \X Exprs}
  \cup
  {Case(Wrap(c[1], Xa.toks \o <<OpTok(c[2])>> \o X1.toks) \o <<OpTok(c[3])>> \o Xb.toks
          \o <<EQ>> \o X2.toks,
        XCmp(XArith(XArith(Xa.tree, c[2], X1.tree), c[3], Xb.tree), "=", X2.tree)) :
     c \in Nestings \X ArithOps \X ArithOps}
  \cup
  {Case(Xa.toks \o <<OpTok(c[2])>> \o Wrap(c[1], X1.toks \o <<OpTok(c[3])>> \o Xb.toks)
          \o <<EQ>> \o X2.toks,
        XCmp(XArith(Xa.tree, c[2], XArith(X1.tree, c[3], Xb.tree)), "=", X2.tree)) :
     c \in Nestings \X ArithOps \X ArithOps}

BracketCases == WrappedConditionCases \cup InnerConditionCases \cup WrappedExpressionCases

(* Spatial predicates.  The arguments of SpatialPredicateNode are lhs, rhs, *)
(* op, with pattern, distance and units as keywords; those of              *)
(* BBoxPredicateNode are lhs, minx, miny, maxx, maxy and then crs.         *)
XSpatial(l, r, op, keywords) == Node("SpatialPredicateNode", <<l, r, PyStr(op)>>, keywords)

XBBox(v, bounds, crs) == Node("BBoxPredicateNode", <<v>> \o bounds \o crs, NoKw)

PlainSpatialOps ==
  {"INTERSECTS", "DISJOINT", "CONTAINS", "WITHIN", "TOUCHES", "CROSSES", "OVERLAPS", "EQUALS"}

Xg == Case(<<ATTRIBUTE("g")>>, XAttr("g"))

Geoms ==
  { Case(<<GEOMETRY(1)>>, XLit(Opaque("Geometry", 1))),
    Case(<<ENVELOPE(1)>>, XLit(Opaque("BBox", 1))) }

Numbers ==
  { Case(<<INTEGER(0)>>, XLit(PyInt(0))), Case(<<FLOAT(1)>>, XLit(PyFloat(1))) }

Units == {"meters", "feet"}

Call(op, arguments) == <<kw(op), LPAREN>> \o arguments \o <<RPAREN>>

PlainSpatialCases ==
  {Case(Call(c[1], Xg.toks \o <<COMMA>> \o c[2].toks), XSpatial(Xg.tree, c[2].tree, c[1], NoKw)) :
     c \in PlainSpatialOps \X Geoms}

RelateCases ==
  {Case(Call("RELATE", Xg.toks \o <<COMMA>> \o c[1].toks \o <<COMMA, QUOTED(c[2])>>),
        XSpatial(Xg.tree, c[1].tree, "RELATE", [pattern |-> PyStr(c[2])])) :
     c \in Geoms \X {"T*F**FFF*", "RELATE"}}

DistanceCases ==
  {Case(Call(c[1], Xg.toks \o <<COMMA>> \o c[2].toks \o <<COMMA>> \o c[3].toks
                     \o <<COMMA, UNITS(c[4])>>),
        XSpatial(Xg.tree, c[2].tree, c[1], [distance |-> c[3].tree, units |-> PyStr(c[4])])) :
     c \in {"DWITHIN", "BEYOND"} \X Geoms \X Numbers \X Units}

(* The four bounds in source order; crs is left out or a quoted string. *)
Crs == {<<>>, <<"EPSG:4326">>}

BBoxCases ==
  {Case(Call("BBOX", Xg.toks \o <<COMMA>> \o c[1].toks \o <<COMMA>> \o c[2].toks \o <<COMMA>>
                       \o c[3].toks \o <<COMMA>> \o c[4].toks
                       \o (IF c[5] = <<>> THEN <<>> ELSE <<COMMA, QUOTED(c[5][1])>>)),
        XBBox(Xg.tree, <<c[1].tree, c[2].tree, c[3].tree, c[4].tree>>,
              IF c[5] = <<>> THEN <<>> ELSE <<PyStr(c[5][1])>>)) :
     c \in Numbers \X Numbers \X Numbers \X Numbers \X Crs}

SpatialCases == PlainSpatialCases \cup RelateCases \cup DistanceCases \cup BBoxCases

(* Spatial calls with the wrong arguments for their operator. *)
MisshapenSpatial ==
  { Call("RELATE", <<ATTRIBUTE("g"), COMMA, GEOMETRY(1)>>),
    Call("DWITHIN", <<ATTRIBUTE("g"), COMMA, GEOMETRY(1)>>),
    Call("BEYOND", <<ATTRIBUTE("g"), COMMA, GEOMETRY(1), COMMA, INTEGER(0)>>),
    Call("INTERSECTS", <<ATTRIBUTE("g"), COMMA, GEOMETRY(1), COMMA, QUOTED("T*F**FFF*")>>),
    Call("BBOX", <<ATTRIBUTE("g"), COMMA, GEOMETRY(1)>>),
    Call("BBOX", <<ATTRIBUTE("g"), COMMA, INTEGER(0), COMMA, INTEGER(0), COMMA, INTEGER(1)>>),
    Call("BBOX", <<ATTRIBUTE("g"), COMMA, INTEGER(0), COMMA, INTEGER(0), COMMA, INTEGER(1),
                   COMMA, QUOTED("EPSG:4326")>>) }

(* Temporal predicates: the arguments of TemporalPredicateNode are lhs,    *)
(* rhs, op; a period is the tuple of its two ends.                         *)
Xt == Case(<<ATTRIBUTE("t")>>, XAttr("t"))

InstantOps == {<<"BEFORE">>, <<"AFTER">>}

PeriodOps == {<<"DURING">>, <<"BEFORE", "OR", "DURING">>, <<"DURING", "OR", "AFTER">>}

OpName(words) ==
  CASE words = <<"BEFORE">> -> "BEFORE"
    [] words = <<"AFTER">> -> "AFTER"
    [] words = <<"DURING">> -> "DURING"
    [] words = <<"BEFORE", "OR", "DURING">> -> "BEFORE OR DURING"
    [] words = <<"DURING", "OR", "AFTER">> -> "DURING OR AFTER"

Words(words) == [k \in DOMAIN words |-> kw(words[k])]

Instants == {Case(<<TIME(1)>>, Opaque("Time", 1))}

Ends == {Case(<<TIME(1)>>, Opaque("Time", 1)), Case(<<TIME(2)>>, Opaque("Time", 2)),
         Case(<<DURATION(3)>>, Opaque("Duration", 3))}

IsTime(end) == end.tree.py = "Time"

Periods ==
  {Case(c[1].toks \o <<DIVIDE>> \o c[2].toks, PyTuple(<<c[1].tree, c[2].tree>>)) :
     c \in {d \in Ends \X Ends : IsTime(d[1]) \/ IsTime(d[2])}}

TemporalCases ==
  {Case(Xt.toks \o Words(c[1]) \o c[2].toks, XTemporal(Xt.tree, c[2].tree, OpName(c[1]))) :
     c \in (InstantOps \X Instants) \cup (PeriodOps \X Periods)}

(* A period of two durations, an instant after a DURING operator, a period *)
(* or a duration after BEFORE or AFTER.                                    *)
MisshapenTemporal ==
  {Xt.toks \o Words(c[1]) \o c[2] :
     c \in (PeriodOps \X {<<DURATION(3), DIVIDE, DURATION(4)>>, <<TIME(1)>>, <<DURATION(3)>>})
           \cup (InstantOps \X ({<<DURATION(3)>>, <<DURATION(3), DIVIDE, DURATION(4)>>}
                                  \cup Toks(Periods)))}

(* Queries with a syntax error: a stray token put into a well-formed       *)
(* query at any place, and a well-formed query cut short.                  *)
Stray == {RPAREN, COMMA, INTEGER(9), kw("AND")}

WellFormed == Toks(Preds) \cup Toks(Chains(1)) \cup {Wrap(<<"(">>, Pa.toks)}

Broken ==
  UNION {{SubSeq(w, 1, k) \o <<tok>> \o SubSeq(w, k + 1, Len(w)) : k \in 0 .. Len(w), tok \in Stray}
           \cup {SubSeq(w, 1, k) : k \in 1 .. (Len(w) - 1)} : w \in WellFormed}

(* A well-formed predicate, a stray token, a well-formed predicate. *)
Interrupted ==
  {c[1].toks \o <<c[2]>> \o c[3].toks : c \in Preds \X (Stray \ {kw("AND")}) \X Preds}

Inputs ==
  {<<>>} \cup Toks(Preds) \cup Toks(ChainCases) \cup Toks(NotChainCases)
    \cup Toks(BothSidesCases) \cup Toks(ThreeOperandCases)
    \cup Toks(NegatablePredicateCases) \cup Toks(FollowedCases)
    \cup Toks(BracketCases)
    \cup Toks(SpatialCases) \cup MisshapenSpatial
    \cup Toks(TemporalCases) \cup MisshapenTemporal
    \cup Broken \cup Interrupted
----------------------------------------------------------------------------
(* CQLParser: the parser object and one run of parser.parse(). *)

VARIABLES
  pc,              \* "idle" before parse() is called, "run" inside it, "done" after
  query,           \* self.__query, as the tokens the lexer cuts it into
  lexpos,          \* the lexer's position: the index of the next token
  lookahead,       \* the parse loop's lookahead, NoToken for None
  lookaheadstack,  \* the pushback stack
  statestack,      \* the LR states
  symstack,        \* the symbols, each with its value
  errorcount,      \* shifts left before an error is reported again
  reported,        \* the arguments of the calls of p_error, in order
  result           \* what parse() returned

vars == <<pc, query, lexpos, lookahead, lookaheadstack, statestack, symstack,
          errorcount, reported, result>>

(* ply.yacc.error_count *)
error_count == 3

(* p.parser.errok() is commented out in p_error: errorok is never set. *)
errorok == FALSE

NoToken == Tok("None", None)

EndSym == Tok("$end", None)

Last(stack) == stack[Len(stack)]

state == Last(statestack)

(* The token the loop looks at: the one it holds, else the one pushed back, *)
(* else the lexer's next one, else $end.                                   *)
get_token == IF lexpos <= Len(query) THEN query[lexpos] ELSE EndSym

Fetching == state \notin parser.defaulted_states /\ lookahead = NoToken

Looked ==
  IF ~Fetching THEN lookahead
  ELSE IF lookaheadstack # <<>> THEN Last(lookaheadstack)
  ELSE get_token

(* The lexer's position and the pushback stack once the token is fetched. *)
lexposFetched ==
  IF Fetching /\ lookaheadstack = <<>> /\ lexpos <= Len(query) THEN lexpos + 1 ELSE lexpos

pushbackFetched ==
  IF Fetching /\ lookaheadstack # <<>>
    THEN SubSeq(lookaheadstack, 1, Len(lookaheadstack) - 1)
  ELSE lookaheadstack

Fetch == lexpos' = lexposFetched /\ lookaheadstack' = pushbackFetched

(* t = actions[state].get(ltype), or the default reduction; {} is None. *)
Action ==
  IF state \in parser.defaulted_states
    THEN {parser.action[state][b] : b \in DOMAIN parser.action[state]}
  ELSE IF Looked.type \in DOMAIN parser.action[state]
    THEN {parser.action[state][Looked.type]}
  ELSE {}

Init ==
  /\ pc = "idle"
  /\ query = <<>>
  /\ lexpos = 1
  /\ lookahead = NoToken
  /\ lookaheadstack = <<>>
  /\ statestack = <<1>>
  /\ symstack = <<EndSym>>
  /\ errorcount = 0
  /\ reported = <<>>
  /\ result = None

(* CQLParser.parse(text), and the module's parse(cql), which builds a       *)
(* fresh CQLParser first.                                                  *)
parse ==
  /\ pc = "idle"
  /\ \E tokens \in Inputs : query' = tokens
  /\ pc' = "run"
  /\ UNCHANGED <<lexpos, lookahead, lookaheadstack, statestack, symstack,
                 errorcount, reported, result>>

Shift ==
  /\ pc = "run"
  /\ \E t \in Action :
       /\ t > 0
       /\ statestack' = Append(statestack, t)
       /\ symstack' = Append(symstack, Looked)
  /\ lookahead' = NoToken
  /\ errorcount' = IF errorcount > 0 THEN errorcount - 1 ELSE errorcount
  /\ Fetch
  /\ UNCHANGED <<pc, query, reported, result>>

Reduce ==
  /\ pc = "run"
  /\ \E t \in Action :
       /\ t < 0
       /\ LET pname == Prod(-t).name
              plen  == Len(Prod(-t).prod)
              base  == Len(symstack) - plen
              targ  == [k \in 1 .. plen |-> symstack[base + k].value]
              sym   == Tok(pname, callable(Prod(-t).func, targ))
          IN  /\ symstack' = Append(SubSeq(symstack, 1, base), sym)
              /\ statestack' = Append(SubSeq(statestack, 1, base),
                                      parser.goto[statestack[base]][pname])
  /\ lookahead' = Looked
  /\ Fetch
  /\ UNCHANGED <<pc, query, errorcount, reported, result>>

Accept ==
  /\ pc = "run"
  /\ 0 \in Action
  /\ result' = Last(symstack).value
  /\ pc' = "done"
  /\ lookahead' = Looked
  /\ Fetch
  /\ UNCHANGED <<query, statestack, symstack, errorcount, reported>>

(* The head of the error branch: p_error is called when errorcount is 0,   *)
(* with None at the end of the input; it logs and returns.                 *)
Report ==
  /\ errorcount' = error_count
  /\ reported' = IF errorcount = 0 \/ errorok
                   THEN Append(reported, IF Looked.type = "$end" THEN NoToken ELSE Looked)
                 ELSE reported

(* len(statestack) <= 1 and not at the end: the token is discarded and the *)
(* parse goes on from the start state.                                     *)
ErrorDiscard ==
  /\ pc = "run"
  /\ Action = {}
  /\ Len(statestack) <= 1 /\ Looked.type # "$end"
  /\ Report
  /\ lookahead' = NoToken
  /\ lookaheadstack' = <<>>
  /\ lexpos' = lexposFetched
  /\ UNCHANGED <<pc, query, statestack, symstack, result>>

(* At the end of the input with symbols on the stack: parse returns None. *)
ErrorBail ==
  /\ pc = "run"
  /\ Action = {}
  /\ ~(Len(statestack) <= 1 /\ Looked.type # "$end")
  /\ Looked.type = "$end"
  /\ Report
  /\ result' = None
  /\ pc' = "done"
  /\ lookahead' = Looked
  /\ Fetch
  /\ UNCHANGED <<query, statestack, symstack>>

(* The offending token is pushed back and an error symbol takes its place; *)
(* a token that follows an error symbol on the stack is dropped.           *)
ErrorToken ==
  /\ pc = "run"
  /\ Action = {}
  /\ Len(statestack) > 1 /\ Looked.type \notin {"$end", "error"}
  /\ Report
  /\ IF Last(symstack).type = "error"
       THEN lookahead' = NoToken /\ Fetch
     ELSE /\ lookahead' = Tok("error", Looked)
          /\ lookaheadstack' = Append(pushbackFetched, Looked)
          /\ lexpos' = lexposFetched
  /\ UNCHANGED <<pc, query, statestack, symstack, result>>

(* No state shifts the error symbol: the top of the stack is popped. *)
ErrorPop ==
  /\ pc = "run"
  /\ Action = {}
  /\ Len(statestack) > 1 /\ Looked.type = "error"
  /\ Report
  /\ symstack' = SubSeq(symstack, 1, Len(symstack) - 1)
  /\ statestack' = SubSeq(statestack, 1, Len(statestack) - 1)
  /\ lookahead' = Looked
  /\ Fetch
  /\ UNCHANGED <<pc, query, result>>

Next ==
  \/ parse
  \/ Shift
  \/ Reduce
  \/ Accept
  \/ ErrorDiscard
  \/ ErrorBail
  \/ ErrorToken
  \/ ErrorPop

Spec == Init /\ [][Next]_vars

----------------------------------------------------------------------------
(* The claims.  Each is about the result of a finished parse, or about the *)
(* values on the symbol stack while it runs.                               *)

Done == pc = "done"

(* Each of the queries gives its tree, with no syntax error reported. *)
Gives(cases) == \A c \in cases : query = c.toks => result = c.tree /\ reported = <<>>

(* The query is refused: p_error is called and parse returns None. *)
Refused == reported # <<>> /\ result = None

(* C1: a query with a syntax error, which is one p_error is called for,    *)
(* gives no tree: the parse returns None and does not go on to build a     *)
(* tree from the tokens after the error.                                   *)
C1_SyntaxErrorGivesNoTree == Done /\ reported # <<>> => result = None

(* C2: parse returns None only for the empty token stream, so that a       *)
(* syntax failure is told apart from blank input by what parse returns.    *)
C2_NoneOnlyForBlankInput == Done /\ result = None => query = <<>>

(* C3, as claimed: NOT binds tighter than AND and OR, so NOT P op Q gives  *)
(* Combination(Not(P), Q, op).                                             *)
C3_NotBindsTighter ==
  Done =>
    \A c \in Preds \X Connectives \X Preds :
      query = <<kw("NOT")>> \o c[1].toks \o <<kw(c[2])>> \o c[3].toks
        => result = XComb(XNot(c[1].tree), c[2], c[3].tree)

(* C3, amended: NOT binds looser than AND and OR, so NOT P op Q gives      *)
(* Not(Combination(P, Q, op)), and NOT in front of a longer chain negates  *)
(* the whole chain.                                                        *)
C3_NotCoversTheChain == Done => Gives(NotChainCases)

C3_Reached ==
  /\ Done
  /\ query = <<kw("NOT")>> \o Pa.toks \o <<kw("AND")>> \o Pb.toks
  /\ result = XNot(XComb(Pa.tree, "AND", Pb.tree))

(* C4: arithmetic binds tighter than comparison, * and / tighter than +    *)
(* and -, and operators of one level group from the left: a op1 1 cmp b    *)
(* op2 2 is a comparison of two arithmetic expressions, a + 1 * b is       *)
(* +(a, *(1, b)) and a - 1 - b is -(-(a, 1), b).                           *)
C4_ArithmeticPrecedence == Done => Gives(BothSidesCases) /\ Gives(ThreeOperandCases)

C4_Reached ==
  /\ Done
  /\ query = <<ATTRIBUTE("a"), MINUS, INTEGER(1), MINUS, ATTRIBUTE("b"), EQ, FLOAT(2)>>
  /\ result = XCmp(XArith(XArith(Xa.tree, "-", X1.tree), "-", Xb.tree), "=", X2.tree)

(* C5: e [NOT] BETWEEN lo AND hi, e [NOT] LIKE|ILIKE q, e [NOT] IN (list)  *)
(* and e IS [NOT] NULL give the predicate node itself, its flag set        *)
(* exactly when NOT is there and its operands the same with and without    *)
(* NOT, also when another predicate follows.                               *)
C5_NegatedFlagAndOperands ==
  Done => Gives(NegatablePredicateCases) /\ Gives(FollowedCases)

C5_Reached ==
  /\ Done
  /\ query = <<ATTRIBUTE("a"), kw("NOT"), kw("BETWEEN"), INTEGER(1), PLUS, ATTRIBUTE("c"),
               kw("AND"), ATTRIBUTE("b")>>
  /\ result = XBetween(Xa.tree, XArith(X1.tree, "+", XAttr("c")), Xb.tree, TRUE)

(* C6: round and square brackets around a condition or an expression, at   *)
(* any depth, leave no trace: the query gives the tree it gives without    *)
(* them, and brackets inside a query only say what the operands are.       *)
C6_BracketsAreTransparent == Done => Gives(BracketCases)

C6_Reached ==
  /\ Done
  /\ query = <<LPAREN, LBRACKET>> \o Pa.toks \o <<RBRACKET, RPAREN>>
  /\ result = Pa.tree

(* The fields a SpatialPredicateNode has, against its operator. *)
SpatialFields(v) ==
  /\ v.cls = "SpatialPredicateNode"
  /\ ~Eq(v.args[3], "BBOX")
  /\ "pattern" \in DOMAIN v.kwargs <=> Eq(v.args[3], "RELATE")
  /\ "distance" \in DOMAIN v.kwargs <=> In(v.args[3], {"DWITHIN", "BEYOND"})
  /\ "units" \in DOMAIN v.kwargs <=> In(v.args[3], {"DWITHIN", "BEYOND"})

(* C7: every value of a spatial_predicate is a BBoxPredicateNode for BBOX  *)
(* and else a SpatialPredicateNode that has a pattern exactly when its     *)
(* operator is RELATE and a distance and units exactly when it is DWITHIN  *)
(* or BEYOND; a spatial call with other arguments than its operator        *)
(* takes is refused.                                                       *)
C7_SpatialFieldPresence ==
  /\ \A k \in DOMAIN symstack :
       symstack[k].type = "spatial_predicate" =>
         \/ symstack[k].value.cls = "BBoxPredicateNode"
         \/ SpatialFields(symstack[k].value)
  /\ Done => Gives(PlainSpatialCases) /\ Gives(RelateCases) /\ Gives(DistanceCases)
  /\ Done /\ query \in Toks(BBoxCases) => result.cls = "BBoxPredicateNode"
  /\ Done /\ query \in MisshapenSpatial => Refused

C7_Reached ==
  \E k \in DOMAIN symstack :
    /\ symstack[k].type = "spatial_predicate"
    /\ symstack[k].value.cls = "SpatialPredicateNode"
    /\ Eq(symstack[k].value.args[3], "RELATE")
    /\ symstack[k].value.kwargs = [pattern |-> PyStr("T*F**FFF*")]

(* C8: a temporal predicate gives a TemporalPredicateNode whose operator   *)
(* is its keywords joined by one space; BEFORE and AFTER take one TIME,    *)
(* the DURING operators a pair TIME/TIME, TIME/DURATION or DURATION/TIME   *)
(* in source order; DURATION/DURATION, an instant after a DURING operator  *)
(* and a period after BEFORE or AFTER are refused.                         *)
C8_TemporalOperatorAndArity ==
  /\ Done => Gives(TemporalCases)
  /\ Done /\ query \in MisshapenTemporal => Refused

C8_Reached ==
  /\ Done
  /\ query = <<ATTRIBUTE("t"), kw("DURING"), kw("OR"), kw("AFTER"), TIME(1), DIVIDE, DURATION(3)>>
  /\ result = XTemporal(XAttr("t"), PyTuple(<<Opaque("Time", 1), Opaque("Duration", 3)>>),
                        "DURING OR AFTER")

(* C9: BBOX(e, n1, n2, n3, n4) gives BBoxPredicateNode(e, n1, n2, n3, n4), *)
(* the bounds in their order and no crs, and BBOX(e, n1, n2, n3, n4, q)    *)
(* the same with crs q: no comma and no bracket is passed.                 *)
C9_BBoxBoundsInOrder == Done => Gives(BBoxCases)

C9_Reached ==
  /\ Done
  /\ query = Call("BBOX", <<ATTRIBUTE("g"), COMMA, INTEGER(0), COMMA, FLOAT(1), COMMA,
                            FLOAT(1), COMMA, INTEGER(0), COMMA, QUOTED("EPSG:4326")>>)
  /\ result = XBBox(XAttr("g"), <<XLit(PyInt(0)), XLit(PyFloat(1)), XLit(PyFloat(1)),
                                  XLit(PyInt(0))>>, <<PyStr("EPSG:4326")>>)

(* C10: AND and OR have no precedence, so a chain of them groups to the    *)
(* right: P o1 Q o2 R gives Combination(P, Combination(Q, R, o2), o1).     *)
C10_ChainsGroupRight == Done => Gives(ChainCases)

C10_Reached ==
  /\ Done
  /\ query = Pa.toks \o <<kw("AND")>> \o Pb.toks \o <<kw("OR")>> \o Pa.toks
  /\ result = XComb(Pa.tree, "AND", XComb(Pb.tree, "OR", Pa.tree))

====
